---- MODULE Spec2Model ----
(***************************************************************************)
(* Model of the dual-panel image comparison component                      *)
(* (src/components/image-compare.tsx): the two panels' view states, the    *)
(* lock (isSynced), the media of each panel with its object URL, and the   *)
(* handlers that change them: the MediaPanel gesture handlers (onDrag,     *)
(* onPinch, onWheel), handleViewChange, the toolbar buttons and the upload *)
(* life cycle.                                                             *)
(*                                                                         *)
(* JavaScript numbers are IEEE-754 doubles and are modelled as such: every *)
(* sum, difference, product and quotient is rounded to the nearest double  *)
(* (ties to even), and Rat(n, d) is the double the literal n/d denotes, so *)
(* Rat(11, 10) is 1.1 = 0x1.199999999999ap+0. Infinities, NaN, subnormal   *)
(* numbers and the sign of zero do not occur in the values the model       *)
(* reaches and are not represented.                                        *)
(***************************************************************************)
EXTENDS Integers, Sequences, FiniteSets, TLC

(***************************************************************************)
(* Bounds of the model.                                                    *)
(***************************************************************************)
\* Number of uploads, wheel events, zoom button presses, video control changes
\* and gesture events (the first event of a drag or pinch on a panel that
\* shows media is free).
MaxSteps == 3

Abs(x) == IF x < 0 THEN -x ELSE x

(***************************************************************************)
(* Numbers: IEEE-754 binary64, round to nearest, ties to even.             *)
(* A number is s * (h * 2^27 + l) * 2^e with s in {-1, 0, 1}; when s # 0,  *)
(* 2^25 <= h < 2^26 and 0 <= l < 2^27, so the significand has 53 bits.     *)
(* Intermediate results are handed on as operator arguments.               *)
(***************************************************************************)
P2 == <<1, 2, 4, 8, 16, 32, 64, 128, 256, 512, 1024, 2048, 4096, 8192, 16384,
        32768, 65536, 131072, 262144, 524288, 1048576, 2097152, 4194304,
        8388608, 16777216, 33554432, 67108864, 134217728, 268435456,
        536870912, 1073741824>>
Pow2(k) == P2[k + 1]

\* Number of bits of x, 0 <= x < 2^31.
BitLen(x) ==
    LET B1(y, n) == n + (IF y >= 2 THEN 2 ELSE y)
        B2(y, n) == B1(IF y >= 4 THEN y \div 4 ELSE y, IF y >= 4 THEN n + 2 ELSE n)
        B4(y, n) == B2(IF y >= 16 THEN y \div 16 ELSE y, IF y >= 16 THEN n + 4 ELSE n)
        B8(y, n) == B4(IF y >= 256 THEN y \div 256 ELSE y, IF y >= 256 THEN n + 8 ELSE n)
    IN  B8(IF x >= 65536 THEN x \div 65536 ELSE x, IF x >= 65536 THEN 16 ELSE 0)

Zero == [s |-> 0, e |-> 0, h |-> 0, l |-> 0]

\* The number nearest to s * (H * 2^27 + L + f) * 2^e, where 0 <= L < 2^27,
\* 0 <= H < 2^31, and f is 0 or, when sticky, some fraction 0 < f < 1.
Round(s, e, H, L, sticky) ==
    LET \* the rounded significand h1 * 2^27 + l1, l1 <= 2^27
        Carry(e1, h1, l1) ==
            IF l1 < 134217728 THEN [s |-> s, e |-> e1, h |-> h1, l |-> l1]
            ELSE IF h1 + 1 < 67108864
            THEN [s |-> s, e |-> e1, h |-> h1 + 1, l |-> 0]
            ELSE [s |-> s, e |-> e1 + 1, h |-> 33554432, l |-> 0]
        \* the low 27 bits kept, rounded by the bits dropped
        Up(ql, dropped, half) ==
            IF dropped > half \/ (dropped = half /\ (sticky \/ ql % 2 = 1))
            THEN ql + 1
            ELSE ql
        \* more than 53 bits: the lowest sh are dropped
        Drop(sh) ==
            Carry(e + sh, H \div Pow2(sh),
                  Up((H % Pow2(sh)) * Pow2(27 - sh) + (L \div Pow2(sh)),
                     L % Pow2(sh), Pow2(sh - 1)))
        \* at most 53 bits: shifted left by k
        Exact(k) ==
            IF k >= 27
            THEN [s |-> s, e |-> e - k, h |-> L * Pow2(k - 27), l |-> 0]
            ELSE [s |-> s, e |-> e - k,
                  h |-> H * Pow2(k) + (L \div Pow2(27 - k)),
                  l |-> (L % Pow2(27 - k)) * Pow2(k)]
        Bits(bl) ==
            IF bl = 0 THEN Zero
            ELSE IF bl <= 53 THEN Exact(53 - bl)
            ELSE Drop(bl - 53)
    IN  Bits(IF H > 0 THEN 27 + BitLen(H) ELSE BitLen(L))

\* The integer i, |i| < 2^31.
R(i) == Round(IF i < 0 THEN -1 ELSE 1, 0, Abs(i) \div 134217728,
              Abs(i) % 134217728, FALSE)

RNeg(a) == [a EXCEPT !.s = -a.s]

\* |a| < |b| for a, b # 0
MagLt(a, b) ==
    \/ a.e < b.e
    \/ a.e = b.e /\ (a.h < b.h \/ (a.h = b.h /\ a.l < b.l))

RAdd(a, b) ==
    LET \* the sum or difference of the significands, times 8
        Total(x, th, tl, sticky) ==
            IF th = 0 /\ tl = 0 /\ ~sticky THEN Zero
            ELSE Round(x.s, x.e - 3, th + (tl \div 134217728), tl % 134217728,
                       sticky)
        Combine(x, same, xh, xl, yh, yl, sticky) ==
            Total(x,
                  IF same THEN xh + yh ELSE xh - yh,
                  IF same THEN xl + yl ELSE xl - yl - (IF sticky THEN 1 ELSE 0),
                  sticky)
        \* y's significand times 8, shifted right by d
        Shift(x, same, xh, xl, yh8, yl8, d) ==
            Combine(x, same, xh, xl,
                    IF d >= 27 THEN 0 ELSE yh8 \div Pow2(d),
                    IF d >= 57 THEN 0
                    ELSE IF d >= 27 THEN yh8 \div Pow2(d - 27)
                    ELSE (yh8 % Pow2(d)) * Pow2(27 - d) + (yl8 \div Pow2(d)),
                    IF d >= 57 THEN TRUE
                    ELSE IF d >= 27 THEN yh8 % Pow2(d - 27) # 0 \/ yl8 # 0
                    ELSE yl8 % Pow2(d) # 0)
        \* |x| >= |y| > 0
        Ordered(x, y) ==
            Shift(x, x.s = y.s,
                  x.h * 8 + (x.l \div 16777216), (x.l * 8) % 134217728,
                  y.h * 8 + (y.l \div 16777216), (y.l * 8) % 134217728,
                  x.e - y.e)
    IN  IF a.s = 0 THEN b
        ELSE IF b.s = 0 THEN a
        ELSE Ordered(IF MagLt(a, b) THEN b ELSE a, IF MagLt(a, b) THEN a ELSE b)

RSub(a, b) == RAdd(a, RNeg(b))

\* The significand as four limbs of 14 bits, least significant first.
Limbs(h, l) ==
    <<l % 16384,
      (l \div 16384) + (h % 2) * 8192,
      (h \div 2) % 16384,
      h \div 32768>>

RMul(a, b) ==
    LET \* the product without its low 49 bits; sticky: some low bit is set
        C6(A, B, sticky, low, c5) ==
            Round(a.s * b.s, a.e + b.e + 49,
                  ((c5 % 16384) \div 64) + (A[4] * B[4] + (c5 \div 16384)) * 256,
                  low + ((c5 % 16384) % 64) * 2097152,
                  sticky)
        C5(A, B, sticky, low, c4) ==
            C6(A, B, sticky, low + (c4 % 16384) * 128,
               A[3] * B[4] + A[4] * B[3] + (c4 \div 16384))
        C4(A, B, sticky, c3) ==
            C5(A, B, sticky \/ (c3 % 16384) % 128 # 0, (c3 % 16384) \div 128,
               A[2] * B[4] + A[3] * B[3] + A[4] * B[2] + (c3 \div 16384))
        C3(A, B, sticky, c2) ==
            C4(A, B, sticky \/ c2 % 16384 # 0,
               A[1] * B[4] + A[2] * B[3] + A[3] * B[2] + A[4] * B[1]
                   + (c2 \div 16384))
        C2(A, B, sticky, c1) ==
            C3(A, B, sticky \/ c1 % 16384 # 0,
               A[1] * B[3] + A[2] * B[2] + A[3] * B[1] + (c1 \div 16384))
        C1(A, B, c0) ==
            C2(A, B, c0 % 16384 # 0, A[1] * B[2] + A[2] * B[1] + (c0 \div 16384))
        C0(A, B) == C1(A, B, A[1] * B[1])
    IN  IF a.s = 0 \/ b.s = 0 THEN Zero
        ELSE C0(Limbs(a.h, a.l), Limbs(b.h, b.l))

\* One step of the long division by the four-limb D (least significant limb
\* first, D[4] >= 8192): whether q * D fits into r * 16384 for the four-limb
\* remainder r < D (then the first component is 0), and the remainder left.
DivTry(r, D, q) ==
    LET T4(m0, m1, m2, t3) ==
            <<r[4] + (t3 \div 16384), <<m0, m1, m2, t3 % 16384>>>>
        T3(m0, m1, t2) ==
            T4(m0, m1, t2 % 16384, r[3] - q * D[4] + (t2 \div 16384))
        T2(m0, t1) == T3(m0, t1 % 16384, r[2] - q * D[3] + (t1 \div 16384))
        T1(t0) == T2(t0 % 16384, r[1] - q * D[2] + (t0 \div 16384))
    IN  T1(0 - q * D[1])

\* The quotient limb of r * 16384 by D and the remainder, as <<q, remainder>>.
DivStep(r, D) ==
    LET Pick(qh, try0, try1, try2) ==
            IF try0[1] = 0 THEN <<qh, try0[2]>>
            ELSE IF try1[1] = 0 THEN <<qh - 1, try1[2]>>
            ELSE <<qh - 2, try2[2]>>
        Try(qh) ==
            Pick(qh, DivTry(r, D, qh), DivTry(r, D, qh - 1), DivTry(r, D, qh - 2))
        Estimate(est) == Try(IF est > 16383 THEN 16383 ELSE est)
    IN  Estimate((r[4] * 16384 + r[3]) \div D[4])

\* a / b for b # 0
RDiv(a, b) ==
    LET \* the quotient of a's significand * 2^56 by b's, from its limbs
        Q4(ge, q1, q2, q3, s4) ==
            Round(a.s * b.s, a.e - b.e - 56,
                  (q3 \div 8192) + q2 * 2 + q1 * 32768
                      + (IF ge THEN 536870912 ELSE 0),
                  s4[1] + (q3 % 8192) * 16384,
                  s4[2] # <<0, 0, 0, 0>>)
        Q3(ge, D, q1, q2, s3) == Q4(ge, q1, q2, s3[1], DivStep(s3[2], D))
        Q2(ge, D, q1, s2) == Q3(ge, D, q1, s2[1], DivStep(s2[2], D))
        Q1(ge, D, s1) == Q2(ge, D, s1[1], DivStep(s1[2], D))
        Q0(ge, D, r0) == Q1(ge, D, DivStep(r0, D))
        \* the first remainder times 8
        Rem8(ge, D, rh, rl8) ==
            Q0(ge, D, Limbs(rh * 8 + (rl8 \div 134217728), rl8 % 134217728))
        Rem(ge, D, rl) ==
            Rem8(ge, D, IF ge THEN a.h - b.h + (rl \div 134217728) ELSE a.h,
                 (rl % 134217728) * 8)
        \* ge: a's significand is at least b's, and b's is taken off first
        First(ge, D) == Rem(ge, D, IF ge THEN a.l - b.l ELSE a.l)
    IN  IF a.s = 0 THEN Zero
        ELSE First(~(a.h < b.h \/ (a.h = b.h /\ a.l < b.l)),
                   \* b's significand times 8: the top limb is >= 2^13
                   Limbs(b.h * 8 + (b.l \div 16777216), (b.l * 8) % 134217728))

\* The number the literal n/d denotes: the nearest to n / d.
Rat(n, d) == RDiv(R(n), R(d))

RLt(a, b) ==
    IF a.s # b.s THEN a.s < b.s
    ELSE IF a.s = 0 THEN FALSE
    ELSE IF a.s > 0 THEN MagLt(a, b) ELSE MagLt(b, a)
RLe(a, b) == a = b \/ RLt(a, b)
RMin(a, b) == IF RLe(a, b) THEN a ELSE b
RMax(a, b) == IF RLe(a, b) THEN b ELSE a

(***************************************************************************)
(* Program constants.                                                      *)
(***************************************************************************)
MinScale == Rat(1, 10)
MaxScale == R(10)
\* |deltaY| below this is a trackpad scroll (pan), otherwise a wheel notch.
TrackpadThreshold == 40
WheelOut == Rat(9, 10)
WheelIn == Rat(11, 10)
ButtonStep == Rat(5, 4)
\* Seconds the playback interval adds to currentTime on each tick.
PlaybackStep == Rat(5, 100)
\* Margin taken off the container on each axis by calculateBaseScale.
Margin == 32

Side == {"left", "right"}
Other(s) == IF s = "left" THEN "right" ELSE "left"

\* null (React state without a value); a record, as the values it stands in for.
Null == [null |-> TRUE]
NoSide == "none"

\* useState initial value of leftViewState / rightViewState.
InitialState == [scale |-> R(1), offsetX |-> R(0), offsetY |-> R(0)]

(***************************************************************************)
(* Inputs the environment delivers.                                        *)
(***************************************************************************)
\* Files the user uploads: the type and the natural size the decoder reports.
Files == { [type |-> "image", width |-> 2000, height |-> 1000] }

\* clientWidth and clientHeight of the comparison container when the
\* component is mounted.
ContainerSizes == { <<800, 600>> }

\* Files of the upload life cycle on its own: a large image and a small video.
\* Sizes the container can be resized to: a roomy one, one narrower than the
\* two margins and one as high as the margin; and no container at all.
UploadFiles == Files \cup { [type |-> "video", width |-> 320, height |-> 240] }
\* containerRef.current is null (the component is no longer mounted).
NoContainer == << >>

ObservedContainerSizes ==
    ContainerSizes \cup { <<60, 600>>, <<800, 32>>, NoContainer }

\* Pointer positions relative to the panel centre
\* (clientX - rect.left - rect.width / 2, clientY - rect.top - rect.height / 2)
\* of wheel events and of the first event of a pinch.
WheelPivots == { <<50, 0>> }
PinchPivots == { <<-10, 0>> }

\* Wheel events: delta and ctrlKey. The deltas are wheel notches up and down,
\* the smallest |deltaY| that is a notch (with and without deltaX) and the
\* largest |deltaY| that is a trackpad scroll.
WheelDeltas == { <<0, -100>>, <<0, 100>>, <<0, -40>>, <<30, 40>>, <<12, -39>> }
WheelEvents ==
    { [dx |-> d[1], dy |-> d[2], ctrlKey |-> c] : d \in WheelDeltas, c \in BOOLEAN }

\* Cumulative pointer movement reported by a drag event after the first.
DragMoves == { <<10, 0>>, <<-7, 4>> }

\* Cumulative scale multiplier reported by a pinch event after the first.
PinchScales == { Rat(1, 20), R(2) }

\* e.currentTarget.duration of a <video> whose metadata has loaded.
VideoDurations == { 12 }

VARIABLES
    viewState,    \* leftViewState / rightViewState
    isSynced,     \* the lock
    media,        \* leftMedia / rightMedia: Null or a MediaInfo
    loading,      \* leftLoading / rightLoading
    videoControls,\* the shared video controls
    containerRef, \* clientWidth and clientHeight of containerRef.current
    closure,      \* the state the last render handed to the handlers
    mediaRef,     \* leftMediaRef / rightMediaRef, set by an effect after render
    objectUrls,   \* objectUrlsRef: the tracked object URLs
    nextUrl,      \* the next object URL URL.createObjectURL hands out
    revokeCount,  \* per created URL, how often URL.revokeObjectURL was called
    pending,      \* decodes in flight: [side, src, file]
    dragMemo,     \* per panel, the memo of the drag in progress, or Null
    pinchMemo,    \* per panel, the memo of the pinch in progress, or Null
    steps,        \* counted events so far
    last,         \* the last event handled: [op, side, ev]
    isDragging,   \* mouse-handler panel: isDragging.current, per panel
    lastPos,      \* mouse-handler panel: lastPos.current, per panel
    sharedViewState, \* mouse-handler version: the one viewState of both panels
    hasImage      \* mouse-handler version: leftImage / rightImage is not null

vars == <<viewState, isSynced, media, loading, videoControls, containerRef, closure, mediaRef, objectUrls,
          nextUrl, revokeCount, pending, dragMemo, pinchMemo, steps, last,
          isDragging, lastPos, sharedViewState, hasImage>>

\* The state of the earlier version of the panel, which pans with mouse
\* handlers instead of the gesture library.
mouseVars == <<isDragging, lastPos, sharedViewState, hasImage>>

mediaVars == <<media, loading, videoControls, containerRef, objectUrls, nextUrl,
               revokeCount, pending>>

\* The component is mounted: its container element exists.
Mounted == containerRef # NoContainer

\* useState initial value of videoControls.
InitialVideoControls ==
    [isPlaying |-> FALSE, currentTime |-> R(0), duration |-> R(0), isMuted |-> TRUE]

Init ==
    /\ viewState = [s \in Side |-> InitialState]
    /\ isSynced = TRUE
    /\ media = [s \in Side |-> Null]
    /\ loading = [s \in Side |-> FALSE]
    /\ videoControls = InitialVideoControls
    /\ containerRef \in ContainerSizes
    /\ closure = [viewState |-> [s \in Side |-> InitialState],
                  media |-> [s \in Side |-> Null],
                  loading |-> [s \in Side |-> FALSE],
                  videoControls |-> InitialVideoControls,
                  isSynced |-> TRUE,
                  sharedViewState |-> InitialState,
                  hasImage |-> [s \in Side |-> FALSE]]
    /\ mediaRef = [s \in Side |-> Null]
    /\ objectUrls = {}
    /\ nextUrl = 1
    /\ revokeCount = << >>
    /\ pending = {}
    /\ dragMemo = [s \in Side |-> Null]
    /\ pinchMemo = [s \in Side |-> Null]
    /\ steps = 0
    /\ last = [op |-> "init", side |-> NoSide, ev |-> Null]
    /\ isDragging = [s \in Side |-> FALSE]
    /\ lastPos = [s \in Side |-> <<0, 0>>]
    /\ sharedViewState = InitialState
    /\ hasImage = [s \in Side |-> FALSE]

\* The event is one of the MaxSteps counted events.
Budget == steps < MaxSteps /\ steps' = steps + 1

(***************************************************************************)
(* React: a render hands the current state to the handlers' closures; the  *)
(* effects that copy the media into the refs run after it. The updates of  *)
(* a discrete event (a click, a drop, a change, a pointer or touch press   *)
(* or release) are rendered, and the effects run, before the event's task  *)
(* ends.                                                                   *)
(***************************************************************************)
\* The render: the handlers' closures get the state.
Rendered ==
    closure' = [viewState |-> viewState', media |-> media',
                loading |-> loading', videoControls |-> videoControls',
                isSynced |-> isSynced',
                sharedViewState |-> sharedViewState', hasImage |-> hasImage']

\* The end of a discrete event: the render and its effects.
Commit ==
    /\ Rendered
    /\ mediaRef' = media'

(***************************************************************************)
(* handleViewChange: the source panel takes newState; with the lock on the *)
(* sibling is scaled by the source's scale ratio and shifted by its offset *)
(* delta.                                                                  *)
(***************************************************************************)
SyncedState(prev, oldState, newState) ==
    LET scaleRatio == RDiv(newState.scale, oldState.scale)
        dx == RSub(newState.offsetX, oldState.offsetX)
        dy == RSub(newState.offsetY, oldState.offsetY)
    IN  [scale |-> RMul(prev.scale, scaleRatio),
         offsetX |-> RAdd(prev.offsetX, dx),
         offsetY |-> RAdd(prev.offsetY, dy)]

\* Mutant of handleViewChange: the sibling is updated whatever the lock.
handleViewChangeAlwaysSynced(side, newState) ==
    viewState' =
        [s \in Side |->
            IF s = side THEN newState
            ELSE SyncedState(viewState[s], closure.viewState[side], newState)]

handleViewChange(side, newState) ==
    LET oldState == closure.viewState[side]
    IN  viewState' =
            [s \in Side |->
                IF s = side THEN newState
                ELSE IF closure.isSynced
                     THEN SyncedState(viewState[s], oldState, newState)
                     ELSE viewState[s]]

(***************************************************************************)
(* MediaPanel gesture handlers (useGesture).                               *)
(***************************************************************************)
\* Math.min(Math.max(x, 0.1), 10)
Clamp(x) == RMin(RMax(x, MinScale), MaxScale)

\* onDrag: the offset captured at the first event plus the movement.
DragState(vs, memo, m) ==
    [vs EXCEPT !.offsetX = RAdd(memo.x, R(m[1])),
               !.offsetY = RAdd(memo.y, R(m[2]))]

onDrag(side, m, isLast) ==
    LET vs == closure.viewState[side]
        first == dragMemo[side] = Null
        memo == IF first THEN [x |-> vs.offsetX, y |-> vs.offsetY]
                ELSE dragMemo[side]
    IN  /\ first <=> m = <<0, 0>>
        /\ first => ~isLast
        /\ UNCHANGED mouseVars
        /\ last' = [op |-> "drag", side |-> side, ev |-> [first |-> first]]
        /\ IF closure.media[side] = Null
           THEN /\ Budget
                /\ UNCHANGED <<viewState, dragMemo>>
           ELSE /\ ~first => Budget
                /\ first => UNCHANGED steps
                /\ handleViewChange(side, DragState(vs, memo, m))
                /\ dragMemo' = [dragMemo EXCEPT
                                    ![side] = IF isLast THEN Null ELSE memo]
        /\ UNCHANGED <<isSynced, pinchMemo>>
        /\ UNCHANGED mediaVars

\* onPinch after the first event: zoom about the pivot captured at the start.
PinchState(memo, ms) ==
    LET newScale == Clamp(RMul(memo.initialScale, ms))
        scaleDiff == RDiv(newScale, memo.initialScale)
    IN  [scale |-> newScale,
         offsetX |-> RSub(memo.mouseX,
                          RMul(RSub(memo.mouseX, memo.initialOffset.x), scaleDiff)),
         offsetY |-> RSub(memo.mouseY,
                          RMul(RSub(memo.mouseY, memo.initialOffset.y), scaleDiff))]

onPinch(side, ms, p, isLast) ==
    LET vs == closure.viewState[side]
        first == pinchMemo[side] = Null
    IN  /\ first <=> ms = R(1)
        /\ first => ~isLast
        /\ UNCHANGED mouseVars
        /\ last' = [op |-> "pinch", side |-> side, ev |-> [first |-> first]]
        /\ IF closure.media[side] = Null
           THEN /\ Budget
                /\ UNCHANGED <<viewState, pinchMemo>>
           ELSE IF first
           THEN /\ pinchMemo' = [pinchMemo EXCEPT ![side] =
                        [initialScale |-> vs.scale,
                         initialOffset |-> [x |-> vs.offsetX, y |-> vs.offsetY],
                         mouseX |-> R(p[1]), mouseY |-> R(p[2])]]
                /\ UNCHANGED <<viewState, steps>>
           ELSE /\ Budget
                /\ handleViewChange(side, PinchState(pinchMemo[side], ms))
                /\ pinchMemo' = [pinchMemo EXCEPT
                                    ![side] = IF isLast THEN Null ELSE @]
        /\ UNCHANGED <<isSynced, dragMemo>>
        /\ UNCHANGED mediaVars

\* onWheel without ctrl: a small |deltaY| pans, a wheel notch zooms about the
\* pointer.
WheelState(vs, ev, mouseX, mouseY) ==
    LET isTrackpad == Abs(ev.dy) < TrackpadThreshold
        delta == IF ev.dy > 0 THEN WheelOut ELSE WheelIn
        newScale == Clamp(RMul(vs.scale, delta))
        scaleDiff == RDiv(newScale, vs.scale)
    IN  IF isTrackpad
        THEN [vs EXCEPT !.offsetX = RSub(vs.offsetX, R(ev.dx)),
                        !.offsetY = RSub(vs.offsetY, R(ev.dy))]
        ELSE [scale |-> newScale,
              offsetX |-> RSub(mouseX, RMul(RSub(mouseX, vs.offsetX), scaleDiff)),
              offsetY |-> RSub(mouseY, RMul(RSub(mouseY, vs.offsetY), scaleDiff))]

\* Mutants of WheelIgnored: the test for media is missing; the test for the
\* ctrl key is missing.
WheelIgnoredCtrlOnly(side, ev) == ev.ctrlKey

WheelIgnoredNoMediaOnly(side, ev) == closure.media[side] = Null

\* Whether onWheel returns before it changes anything.
WheelIgnored(side, ev) == closure.media[side] = Null \/ ev.ctrlKey

onWheel(side, ev, p) ==
    /\ UNCHANGED mouseVars
    /\ last' = [op |-> "wheel", side |-> side, ev |-> [ctrlKey |-> ev.ctrlKey]]
    /\ Budget
    /\ IF WheelIgnored(side, ev)
       THEN UNCHANGED viewState
       ELSE handleViewChange(side,
                WheelState(closure.viewState[side], ev, R(p[1]), R(p[2])))
    /\ UNCHANGED <<isSynced, dragMemo, pinchMemo>>
    /\ UNCHANGED mediaVars

(***************************************************************************)
(* Toolbar buttons. They are rendered disabled unless some panel has media *)
(* and none is loading.                                                    *)
(***************************************************************************)
ButtonsEnabled ==
    /\ \E s \in Side : closure.media[s] # Null
    /\ \A s \in Side : ~closure.loading[s]

\* Mutant of ResetViews: the scales are reset, the offsets stay.
ResetViewsScaleOnly ==
    /\ viewState' = [s \in Side |-> [viewState[s] EXCEPT !.scale = R(1)]]
    /\ isSynced' = TRUE

\* Mutant of ResetViews: the lock is left as it was.
ResetViewsKeepsLock ==
    /\ viewState' = [s \in Side |-> InitialState]
    /\ isSynced' = isSynced

ResetViews ==
    /\ viewState' = [s \in Side |-> InitialState]
    /\ isSynced' = TRUE

handleReset ==
    /\ ButtonsEnabled
    /\ ResetViews
    /\ UNCHANGED mouseVars
    /\ last' = [op |-> "reset", side |-> NoSide, ev |-> Null]
    /\ UNCHANGED <<dragMemo, pinchMemo, steps>>
    /\ UNCHANGED mediaVars

ZoomInState(prev) == [prev EXCEPT !.scale = RMin(RMul(prev.scale, ButtonStep), MaxScale)]

\* Mutant of ZoomOutState: the step down is a quarter of the scale.
ZoomOutStateThreeQuarters(prev) ==
    [prev EXCEPT !.scale = RMax(RMul(prev.scale, Rat(3, 4)), MinScale)]

ZoomOutState(prev) == [prev EXCEPT !.scale = RMax(RDiv(prev.scale, ButtonStep), MinScale)]

\* Mutant of handleZoomIn: with the lock off only the left panel is zoomed.
handleZoomInLeftWhenUnlocked ==
    /\ ButtonsEnabled
    /\ Budget
    /\ viewState' = [s \in Side |->
                        IF isSynced \/ s = "left" THEN ZoomInState(viewState[s])
                        ELSE viewState[s]]
    /\ UNCHANGED mouseVars
    /\ last' = [op |-> "zoomIn", side |-> NoSide, ev |-> Null]
    /\ UNCHANGED <<isSynced, dragMemo, pinchMemo>>
    /\ UNCHANGED mediaVars

handleZoomIn ==
    /\ ButtonsEnabled
    /\ Budget
    /\ viewState' = [s \in Side |-> ZoomInState(viewState[s])]
    /\ UNCHANGED mouseVars
    /\ last' = [op |-> "zoomIn", side |-> NoSide, ev |-> Null]
    /\ UNCHANGED <<isSynced, dragMemo, pinchMemo>>
    /\ UNCHANGED mediaVars

handleZoomOut ==
    /\ ButtonsEnabled
    /\ Budget
    /\ viewState' = [s \in Side |-> ZoomOutState(viewState[s])]
    /\ UNCHANGED mouseVars
    /\ last' = [op |-> "zoomOut", side |-> NoSide, ev |-> Null]
    /\ UNCHANGED <<isSynced, dragMemo, pinchMemo>>
    /\ UNCHANGED mediaVars

\* Mutant of toggleLock: locking aligns the right panel with the left one.
toggleLockRealign ==
    /\ ButtonsEnabled
    /\ isSynced' = ~closure.isSynced
    /\ viewState' = IF closure.isSynced THEN viewState
                    ELSE [s \in Side |-> viewState["left"]]
    /\ UNCHANGED mouseVars
    /\ last' = [op |-> "toggleLock", side |-> NoSide, ev |-> Null]
    /\ UNCHANGED <<dragMemo, pinchMemo, steps>>
    /\ UNCHANGED mediaVars

\* onClick of the lock button: setIsSynced(!isSynced)
toggleLock ==
    /\ ButtonsEnabled
    /\ isSynced' = ~closure.isSynced
    /\ UNCHANGED mouseVars
    /\ last' = [op |-> "toggleLock", side |-> NoSide, ev |-> Null]
    /\ UNCHANGED <<viewState, dragMemo, pinchMemo, steps>>
    /\ UNCHANGED mediaVars

(***************************************************************************)
(* Upload life cycle.                                                      *)
(***************************************************************************)
\* URL.revokeObjectURL(url)
Revoke(count, urls) ==
    [u \in DOMAIN count |-> IF u \in urls THEN count[u] + 1 ELSE count[u]]

\* The old URL handleUpload and handleDeleteMedia release: the one the ref
\* holds, when it is tracked.
OldUrls(side) ==
    IF mediaRef[side] # Null /\ mediaRef[side].src \in objectUrls
    THEN {mediaRef[side].src}
    ELSE {}

\* Mutant of calculateBaseScale: the whole container width is used.
calculateBaseScaleFullWidth(mediaWidth, mediaHeight, container) ==
    IF container = NoContainer THEN R(1)
    ELSE LET containerWidth == R(container[1] - Margin)
             containerHeight == R(container[2] - Margin)
             scaleX == RDiv(containerWidth, R(mediaWidth))
             scaleY == RDiv(containerHeight, R(mediaHeight))
         IN  RMin(RMin(scaleX, scaleY), R(1))

calculateBaseScale(mediaWidth, mediaHeight, container) ==
    IF container = NoContainer THEN R(1)
    ELSE LET containerWidth == RSub(Rat(container[1], 2), R(Margin))
             containerHeight == R(container[2] - Margin)
             scaleX == RDiv(containerWidth, R(mediaWidth))
             scaleY == RDiv(containerHeight, R(mediaHeight))
         IN  RMin(RMin(scaleX, scaleY), R(1))

\* handleUpload up to the point where the decoder is started.
handleUpload(file, side) ==
    /\ Budget
    /\ loading' = [loading EXCEPT ![side] = TRUE]
    /\ objectUrls' = objectUrls \ OldUrls(side)
    /\ revokeCount' = Revoke(revokeCount, OldUrls(side)) @@ (nextUrl :> 0)
    /\ nextUrl' = nextUrl + 1
    /\ pending' = pending \cup {[side |-> side, src |-> nextUrl, file |-> file]}
    /\ UNCHANGED mouseVars
    /\ last' = [op |-> "upload", side |-> side, ev |-> Null]
    /\ UNCHANGED <<viewState, isSynced, media, videoControls, containerRef,
                   dragMemo, pinchMemo>>

\* img.onload / video.onloadedmetadata. React ignores the state updates of a
\* component that is no longer mounted.
onLoad(load, container) ==
    /\ load \in pending
    /\ pending' = pending \ {load}
    /\ objectUrls' = objectUrls \cup {load.src}
    /\ IF Mounted
       THEN /\ media' = [media EXCEPT ![load.side] =
                    [src |-> load.src,
                     width |-> load.file.width,
                     height |-> load.file.height,
                     baseScale |-> calculateBaseScale(load.file.width,
                                                      load.file.height, container),
                     type |-> load.file.type]]
            /\ loading' = [loading EXCEPT ![load.side] = FALSE]
       ELSE UNCHANGED <<media, loading>>
    /\ UNCHANGED mouseVars
    /\ last' = [op |-> "load", side |-> load.side, ev |-> Null]
    /\ UNCHANGED <<viewState, isSynced, videoControls, containerRef, nextUrl,
                   revokeCount, dragMemo, pinchMemo, steps>>

\* img.onerror / video.onerror
onError(load) ==
    /\ load \in pending
    /\ pending' = pending \ {load}
    /\ revokeCount' = Revoke(revokeCount, {load.src})
    /\ IF Mounted
       THEN loading' = [loading EXCEPT ![load.side] = FALSE]
       ELSE UNCHANGED loading
    /\ UNCHANGED mouseVars
    /\ last' = [op |-> "loadError", side |-> load.side, ev |-> Null]
    /\ UNCHANGED <<viewState, isSynced, media, videoControls, containerRef,
                   objectUrls, nextUrl, dragMemo, pinchMemo, steps>>

\* The controls a panel renders over a video: the play button, the mute button
\* and the seek slider, each reporting the fields it changes.
VideoControlChanges(vc) ==
    { [isPlaying |-> ~vc.isPlaying], [isMuted |-> ~vc.isMuted],
      [currentTime |-> R(5)] }

\* handleVideoControlChange: setVideoControls(prev => ({ ...prev, ...newControls }))
\* from a control or the <video> element of a panel that shows a video.
handleVideoControlChange(side, newControls) ==
    /\ closure.media[side] # Null
    /\ closure.media[side].type = "video"
    /\ ~closure.loading[side]
    /\ Budget
    /\ videoControls' =
           [k \in DOMAIN videoControls |->
               IF k \in DOMAIN newControls THEN newControls[k] ELSE videoControls[k]]
    /\ UNCHANGED mouseVars
    /\ last' = [op |-> "videoControl", side |-> side, ev |-> Null]
    /\ UNCHANGED <<viewState, isSynced, media, loading, containerRef, objectUrls,
                   nextUrl, revokeCount, pending, dragMemo, pinchMemo>>

\* The interval that runs while the rendered controls are playing: every 50 ms
\* setVideoControls(prev => ({ ...prev, currentTime: prev.currentTime + 0.05 })).
PlaybackTick ==
    /\ closure.videoControls.isPlaying
    /\ Budget
    /\ videoControls' =
           [videoControls EXCEPT !.currentTime = RAdd(@, PlaybackStep)]
    /\ UNCHANGED mouseVars
    /\ last' = [op |-> "tick", side |-> NoSide, ev |-> Null]
    /\ UNCHANGED <<viewState, isSynced, media, loading, containerRef, objectUrls,
                   nextUrl, revokeCount, pending, dragMemo, pinchMemo>>

\* Mutant of handleDeleteMedia: the revoked URL stays in the tracked set.
handleDeleteMediaKeepsTracked(side) ==
    /\ closure.media[side] # Null
    /\ ~closure.loading[side]
    /\ revokeCount' = Revoke(revokeCount, OldUrls(side))
    /\ media' = [media EXCEPT ![side] = Null]
    /\ UNCHANGED <<dragMemo, pinchMemo>>
    /\ UNCHANGED mouseVars
    /\ last' = [op |-> "delete", side |-> side, ev |-> Null]
    /\ UNCHANGED <<viewState, isSynced, loading, videoControls, containerRef,
                   objectUrls, nextUrl, pending, steps>>

\* The delete button of a panel is rendered when the panel shows media.
handleDeleteMedia(side) ==
    /\ closure.media[side] # Null
    /\ ~closure.loading[side]
    /\ objectUrls' = objectUrls \ OldUrls(side)
    /\ revokeCount' = Revoke(revokeCount, OldUrls(side))
    /\ media' = [media EXCEPT ![side] = Null]
    /\ UNCHANGED <<dragMemo, pinchMemo>>
    /\ UNCHANGED mouseVars
    /\ last' = [op |-> "delete", side |-> side, ev |-> Null]
    /\ UNCHANGED <<viewState, isSynced, loading, videoControls, containerRef,
                   nextUrl, pending, steps>>

\* Mutant of handleClearAll: the video controls are left as they are.
handleClearAllKeepsVideo ==
    /\ ButtonsEnabled
    /\ revokeCount' = Revoke(revokeCount, objectUrls)
    /\ objectUrls' = {}
    /\ media' = [s \in Side |-> Null]
    /\ loading' = [s \in Side |-> FALSE]
    /\ ResetViews
    /\ UNCHANGED <<dragMemo, pinchMemo>>
    /\ UNCHANGED mouseVars
    /\ last' = [op |-> "clearAll", side |-> NoSide, ev |-> Null]
    /\ UNCHANGED <<videoControls, containerRef, nextUrl, pending, steps>>

\* handleClearAll: cleanupAllUrls, both media and loading flags cleared, reset.
handleClearAll ==
    /\ ButtonsEnabled
    /\ revokeCount' = Revoke(revokeCount, objectUrls)
    /\ objectUrls' = {}
    /\ media' = [s \in Side |-> Null]
    /\ loading' = [s \in Side |-> FALSE]
    /\ ResetViews
    /\ videoControls' = InitialVideoControls
    /\ UNCHANGED <<dragMemo, pinchMemo>>
    /\ UNCHANGED mouseVars
    /\ last' = [op |-> "clearAll", side |-> NoSide, ev |-> Null]
    /\ UNCHANGED <<containerRef, nextUrl, pending, steps>>

(***************************************************************************)
(* The component. A click, a drop or a change is a discrete event: React   *)
(* renders its updates before the next event is handled. A wheel or        *)
(* pointer event and a decode callback only queue their updates: the       *)
(* handlers keep the closure of the last render, and the refs their        *)
(* values, until a later render.                                           *)
(***************************************************************************)
\* The first event of a drag is a pointerdown and the last a pointerup, both
\* discrete; the events between are pointermoves.
Drag == \E s \in Side, m \in DragMoves \cup {<<0, 0>>}, l \in BOOLEAN :
            /\ onDrag(s, m, l)
            /\ IF closure.media[s] # Null /\ (dragMemo[s] = Null \/ l)
               THEN Commit
               ELSE UNCHANGED <<closure, mediaRef>>
\* The last event of a touch pinch is a touchend, which is discrete; a pinch
\* by ctrl and wheel ends on a timer. The first event queues no update.
Pinch == \E s \in Side, ms \in PinchScales \cup {R(1)}, p \in PinchPivots,
            l \in BOOLEAN, touch \in BOOLEAN :
            /\ onPinch(s, ms, p, l)
            /\ IF closure.media[s] # Null /\ l /\ touch
               THEN Commit
               ELSE UNCHANGED <<closure, mediaRef>>
Wheel == \E s \in Side, ev \in WheelEvents, p \in WheelPivots :
            onWheel(s, ev, p) /\ UNCHANGED <<closure, mediaRef>>
Reset == handleReset /\ Commit
ZoomIn == Mounted /\ handleZoomIn /\ Commit
ZoomOut == handleZoomOut /\ Commit
ToggleLock == Mounted /\ toggleLock /\ Commit
Upload == \E s \in Side, f \in Files : handleUpload(f, s) /\ Commit
Load == \E l \in pending : onLoad(l, containerRef) /\ UNCHANGED <<closure, mediaRef>>
LoadError == \E l \in pending : onError(l) /\ UNCHANGED <<closure, mediaRef>>

\* React renders the queued updates. The effects of the render before, when
\* they have not run yet, run first; the effects of this render run later.
Render ==
    /\ Mounted
    /\ closure # [viewState |-> viewState, media |-> media, loading |-> loading,
                  videoControls |-> videoControls, isSynced |-> isSynced,
                  sharedViewState |-> sharedViewState, hasImage |-> hasImage]
    /\ UNCHANGED <<viewState, isSynced, dragMemo, pinchMemo, steps, last>>
    /\ UNCHANGED mediaVars
    /\ UNCHANGED mouseVars
    /\ Rendered
    /\ mediaRef' = closure.media

\* The effects of a render: leftMediaRef.current = leftMedia and
\* rightMediaRef.current = rightMedia, of the media that was rendered.
MediaRefEffects ==
    /\ Mounted
    /\ mediaRef # closure.media
    /\ mediaRef' = closure.media
    /\ UNCHANGED <<viewState, isSynced, closure, dragMemo, pinchMemo, steps, last>>
    /\ UNCHANGED mediaVars
    /\ UNCHANGED mouseVars
Delete == \E s \in Side : Mounted /\ handleDeleteMedia(s) /\ Commit
ClearAll == Mounted /\ handleClearAll /\ Commit

\* Mutant of Resize: the base scale of the media is computed again.
ResizeRecomputes ==
    \E c \in ObservedContainerSizes \ {NoContainer, containerRef} :
        /\ Mounted
        /\ Budget
        /\ containerRef' = c
        /\ media' = [s \in Side |->
               IF media[s] = Null THEN Null
               ELSE [media[s] EXCEPT !.baseScale =
                        calculateBaseScale(media[s].width, media[s].height, c)]]
        /\ UNCHANGED mouseVars
        /\ last' = [op |-> "resize", side |-> NoSide, ev |-> Null]
        /\ UNCHANGED <<viewState, isSynced, loading, videoControls, objectUrls,
                       nextUrl, revokeCount, pending, dragMemo, pinchMemo>>
        /\ Commit

\* The window is resized: the container element gets another size. No handler
\* of the component listens to it.
Resize == \E c \in ObservedContainerSizes \ {NoContainer, containerRef} :
              /\ Mounted
              /\ Budget
              /\ containerRef' = c
              /\ UNCHANGED mouseVars
              /\ last' = [op |-> "resize", side |-> NoSide, ev |-> Null]
              /\ UNCHANGED <<viewState, isSynced, media, loading, videoControls,
                             closure, mediaRef, objectUrls, nextUrl, revokeCount,
                             pending, dragMemo, pinchMemo>>

Next ==
    \/ Drag
    \/ Pinch
    \/ Wheel
    \/ Reset
    \/ ZoomIn
    \/ ZoomOut
    \/ ToggleLock
    \/ Upload
    \/ Load
    \/ LoadError
    \/ Delete
    \/ ClearAll
    \/ Resize
    \/ Render
    \/ MediaRefEffects

Spec == Init /\ [][Next]_vars

(***************************************************************************)
(* The upload life cycle with the video controls, the lock and the zoom-in *)
(* button, without gestures, for every file and every container size, up   *)
(* to and after the unmount of the component.                              *)
(***************************************************************************)
VideoControl == \E s \in Side, c \in VideoControlChanges(closure.videoControls) :
                    Mounted /\ handleVideoControlChange(s, c) /\ Commit
\* onLoadedMetadata of the <video> element a panel has rendered.
LoadedMetadata == \E s \in Side, d \in VideoDurations :
                      /\ Mounted
                      /\ handleVideoControlChange(s, [duration |-> R(d)])
                      /\ UNCHANGED <<closure, mediaRef>>
Tick == Mounted /\ PlaybackTick /\ UNCHANGED <<closure, mediaRef>>
UploadAny == \E s \in Side, f \in UploadFiles :
                 Mounted /\ handleUpload(f, s) /\ Commit

\* The component is unmounted: the effects of the last render run if they have
\* not run yet, the cleanup of the unmount effect runs cleanupAllUrls and the
\* container element goes away. Decodes in flight still call back.
Unmount ==
    /\ Mounted
    /\ revokeCount' = Revoke(revokeCount, objectUrls)
    /\ objectUrls' = {}
    /\ containerRef' = NoContainer
    /\ UNCHANGED mouseVars
    /\ last' = [op |-> "unmount", side |-> NoSide, ev |-> Null]
    /\ mediaRef' = closure.media
    /\ UNCHANGED <<viewState, isSynced, media, loading, videoControls, closure,
                   nextUrl, pending, dragMemo, pinchMemo, steps>>

NextUpload ==
    \/ UploadAny
    \/ Load
    \/ LoadError
    \/ VideoControl
    \/ LoadedMetadata
    \/ Tick
    \/ ZoomIn
    \/ ToggleLock
    \/ Delete
    \/ ClearAll
    \/ Resize
    \/ Unmount
    \/ Render
    \/ MediaRefEffects

SpecUpload == Init /\ [][NextUpload]_vars

(***************************************************************************)
(* The gestures, the toolbar buttons and the loads of the first file on    *)
(* their own, without deletes, failures and resizes.                       *)
(***************************************************************************)
NextBatched ==
    \/ Drag
    \/ Pinch
    \/ Wheel
    \/ Render
    \/ Reset
    \/ ZoomIn
    \/ ZoomOut
    \/ ToggleLock
    \/ Upload
    \/ Load
    \/ MediaRefEffects

SpecBatched == Init /\ [][NextBatched]_vars

(***************************************************************************)
(* Wheel and pinch events on a loaded left panel whose view, like the      *)
(* right panel's, has been zoomed to a scale limit or left at scale 1 and  *)
(* moved, with the lock on or off.                                         *)
(***************************************************************************)
LimitStates ==
    { [scale |-> sc, offsetX |-> ox, offsetY |-> R(0)] :
          sc \in {MinScale, R(1), MaxScale}, ox \in {R(0), R(30)} }

\* The descriptor of the first file once it has loaded into the left panel.
LoadedMedia ==
    LET f == CHOOSE file \in Files : TRUE
        c == CHOOSE size \in ContainerSizes : TRUE
    IN  [src |-> 1, width |-> f.width, height |-> f.height,
         baseScale |-> calculateBaseScale(f.width, f.height, c), type |-> f.type]

InitLimits ==
    /\ viewState \in [Side -> LimitStates]
    /\ isSynced \in BOOLEAN
    /\ media = [s \in Side |-> IF s = "left" THEN LoadedMedia ELSE Null]
    /\ loading = [s \in Side |-> FALSE]
    /\ videoControls = InitialVideoControls
    /\ containerRef \in ContainerSizes
    /\ closure = [viewState |-> viewState, media |-> media, loading |-> loading,
                  videoControls |-> videoControls, isSynced |-> isSynced,
                  sharedViewState |-> InitialState,
                  hasImage |-> [s \in Side |-> FALSE]]
    /\ mediaRef = media
    /\ objectUrls = {1}
    /\ nextUrl = 2
    /\ revokeCount = (1 :> 0)
    /\ pending = {}
    /\ dragMemo = [s \in Side |-> Null]
    /\ pinchMemo = [s \in Side |-> Null]
    /\ steps = 0
    /\ last = [op |-> "load", side |-> "left", ev |-> Null]
    /\ isDragging = [s \in Side |-> FALSE]
    /\ lastPos = [s \in Side |-> <<0, 0>>]
    /\ sharedViewState = InitialState
    /\ hasImage = [s \in Side |-> FALSE]

NextLimits ==
    \/ Wheel
    \/ Pinch
    \/ Render

SpecLimits == InitLimits /\ [][NextLimits]_vars

(***************************************************************************)
(* The toolbar buttons pressed on a loaded left panel whose view, like the *)
(* right panel's, has been zoomed to a scale limit or left at scale 1 and  *)
(* moved, with the lock on or off.                                         *)
(***************************************************************************)
NextButtons ==
    \/ ZoomIn
    \/ ZoomOut
    \/ Reset
    \/ ToggleLock

SpecButtons == InitLimits /\ [][NextButtons]_vars

(***************************************************************************)
(* Drag sessions. The current panel pans through the gesture library's     *)
(* onDrag; the earlier version of the panel pans with mouse handlers over  *)
(* two refs and one view state that both panels show. Both are run here    *)
(* from a state in which the left panel holds the first file. The earlier  *)
(* version attaches its wheel, press and move handlers to a panel only     *)
(* while the panel is rendered with an image, and enables its buttons only *)
(* while a panel is rendered with one.                                     *)
(***************************************************************************)
\* clientX / clientY of the mouse events.
MousePositions == {<<0, 0>>, <<3, 4>>}
\* e.button: the left and the right button.
MouseButtons == {0, 2}
\* e.deltaY of the wheel events of the earlier version: a notch up and down.
MouseWheelDeltas == {-100, 100}

\* Every variable of the current version that the handlers of the earlier
\* version leave alone.
MouseFrame ==
    /\ UNCHANGED <<viewState, isSynced, mediaRef, dragMemo, pinchMemo>>
    /\ UNCHANGED mediaVars

\* The end of a click in the earlier version: its updates are rendered.
MouseCommit ==
    closure' = [closure EXCEPT !.sharedViewState = sharedViewState',
                               !.hasImage = hasImage']

\* hasImages of the last render: the buttons are enabled.
hasImages == \E s \in Side : closure.hasImage[s]

\* handleWheel of the earlier version: the view a wheel event at the pointer
\* (mouseX, mouseY), measured from the panel's centre, gives.
MouseWheelState(vs, dy, mouseX, mouseY) ==
    LET delta == IF dy > 0 THEN Rat(9, 10) ELSE Rat(11, 10)
        newScale == RMin(RMax(RMul(vs.scale, delta), Rat(1, 10)), R(10))
        scaleDiff == RDiv(newScale, vs.scale)
    IN  [scale |-> newScale,
         offsetX |-> RSub(mouseX, RMul(RSub(mouseX, vs.offsetX), scaleDiff)),
         offsetY |-> RSub(mouseY, RMul(RSub(mouseY, vs.offsetY), scaleDiff))]

handleMouseWheel(side, dy, p) ==
    /\ Budget
    /\ sharedViewState' =
           MouseWheelState(closure.sharedViewState, dy, R(p[1]), R(p[2]))
    /\ last' = [op |-> "mouseWheel", side |-> side, ev |-> [dy |-> dy]]
    /\ UNCHANGED <<isDragging, lastPos, hasImage, closure>>
    /\ MouseFrame

handleMouseDown(side, button, pos) ==
    /\ IF button = 0
       THEN /\ isDragging' = [isDragging EXCEPT ![side] = TRUE]
            /\ lastPos' = [lastPos EXCEPT ![side] = pos]
       ELSE UNCHANGED <<isDragging, lastPos>>
    /\ last' = [op |-> "mouseDown", side |-> side,
                ev |-> [button |-> button, pos |-> pos]]
    /\ UNCHANGED <<sharedViewState, hasImage, closure, steps>>
    /\ MouseFrame

handleMouseMove(side, pos) ==
    /\ Budget
    /\ IF isDragging[side]
       THEN /\ lastPos' = [lastPos EXCEPT ![side] = pos]
            /\ sharedViewState' =
                   [closure.sharedViewState EXCEPT
                       !.offsetX = RAdd(@, R(pos[1] - lastPos[side][1])),
                       !.offsetY = RAdd(@, R(pos[2] - lastPos[side][2]))]
       ELSE UNCHANGED <<lastPos, sharedViewState>>
    /\ last' = [op |-> "mouseMove", side |-> side, ev |-> [pos |-> pos]]
    /\ UNCHANGED <<isDragging, hasImage, closure>>
    /\ MouseFrame

handleMouseUp(side) ==
    /\ isDragging' = [isDragging EXCEPT ![side] = FALSE]
    /\ last' = [op |-> "mouseUp", side |-> side, ev |-> Null]
    /\ UNCHANGED <<lastPos, sharedViewState, hasImage, closure, steps>>
    /\ MouseFrame

handleMouseLeave(side) ==
    /\ isDragging' = [isDragging EXCEPT ![side] = FALSE]
    /\ last' = [op |-> "mouseLeave", side |-> side, ev |-> Null]
    /\ UNCHANGED <<lastPos, sharedViewState, hasImage, closure, steps>>
    /\ MouseFrame

\* handleUpload of the earlier version, when the image it read has decoded:
\* img.onload sets leftImage or rightImage.
handleMouseUpload(side) ==
    /\ Budget
    /\ hasImage' = [hasImage EXCEPT ![side] = TRUE]
    /\ last' = [op |-> "mouseUpload", side |-> side, ev |-> Null]
    /\ UNCHANGED <<isDragging, lastPos, sharedViewState, closure>>
    /\ MouseFrame

\* handleReset, handleZoomIn, handleZoomOut and handleClearAll of the earlier
\* version, on its one view state.
handleMouseReset ==
    /\ sharedViewState' = InitialState
    /\ last' = [op |-> "mouseReset", side |-> NoSide, ev |-> Null]
    /\ UNCHANGED <<isDragging, lastPos, hasImage, steps>>
    /\ MouseFrame

handleMouseZoomIn ==
    /\ Budget
    /\ sharedViewState' =
           [sharedViewState EXCEPT !.scale = RMin(RMul(@, Rat(125, 100)), R(10))]
    /\ last' = [op |-> "mouseZoomIn", side |-> NoSide, ev |-> Null]
    /\ UNCHANGED <<isDragging, lastPos, hasImage>>
    /\ MouseFrame

handleMouseZoomOut ==
    /\ Budget
    /\ sharedViewState' =
           [sharedViewState EXCEPT !.scale = RMax(RDiv(@, Rat(125, 100)), Rat(1, 10))]
    /\ last' = [op |-> "mouseZoomOut", side |-> NoSide, ev |-> Null]
    /\ UNCHANGED <<isDragging, lastPos, hasImage>>
    /\ MouseFrame

handleMouseClearAll ==
    /\ hasImage' = [s \in Side |-> FALSE]
    /\ sharedViewState' = InitialState
    /\ last' = [op |-> "mouseClearAll", side |-> NoSide, ev |-> Null]
    /\ UNCHANGED <<isDragging, lastPos, steps>>
    /\ MouseFrame

\* A wheel, a move or a decode callback only queues its update; a press or a
\* release updates refs only, so nothing is rendered; a click on a button is
\* rendered at once.
MouseUpload == \E s \in Side : handleMouseUpload(s)
MouseWheel == \E s \in Side, dy \in MouseWheelDeltas, p \in WheelPivots :
                  closure.hasImage[s] /\ handleMouseWheel(s, dy, p)
MouseDown == \E s \in Side, b \in MouseButtons, pos \in MousePositions :
                 closure.hasImage[s] /\ handleMouseDown(s, b, pos)
MouseMove == \E s \in Side, pos \in MousePositions :
                 closure.hasImage[s] /\ handleMouseMove(s, pos)
MouseUp == \E s \in Side : handleMouseUp(s)
MouseLeave == \E s \in Side : handleMouseLeave(s)
MouseReset == hasImages /\ handleMouseReset /\ MouseCommit
MouseZoomIn == hasImages /\ handleMouseZoomIn /\ MouseCommit
MouseZoomOut == hasImages /\ handleMouseZoomOut /\ MouseCommit
MouseClearAll == hasImages /\ handleMouseClearAll /\ MouseCommit

InitDrag ==
    /\ viewState = [s \in Side |-> InitialState]
    /\ isSynced = TRUE
    /\ media = [s \in Side |-> IF s = "left" THEN LoadedMedia ELSE Null]
    /\ loading = [s \in Side |-> FALSE]
    /\ videoControls = InitialVideoControls
    /\ containerRef \in ContainerSizes
    /\ hasImage = [s \in Side |-> s = "left"]
    /\ closure = [viewState |-> viewState, media |-> media, loading |-> loading,
                  videoControls |-> videoControls, isSynced |-> isSynced,
                  sharedViewState |-> InitialState, hasImage |-> hasImage]
    /\ mediaRef = media
    /\ objectUrls = {1}
    /\ nextUrl = 2
    /\ revokeCount = (1 :> 0)
    /\ pending = {}
    /\ dragMemo = [s \in Side |-> Null]
    /\ pinchMemo = [s \in Side |-> Null]
    /\ steps = 0
    /\ last = [op |-> "load", side |-> "left", ev |-> Null]
    /\ isDragging = [s \in Side |-> FALSE]
    /\ lastPos = [s \in Side |-> <<0, 0>>]
    /\ sharedViewState = InitialState

NextDrag ==
    \/ Drag
    \/ MouseUpload
    \/ MouseWheel
    \/ MouseDown
    \/ MouseMove
    \/ MouseUp
    \/ MouseLeave
    \/ MouseReset
    \/ MouseZoomIn
    \/ MouseZoomOut
    \/ MouseClearAll
    \/ Render

SpecDrag == InitDrag /\ [][NextDrag]_vars

(***************************************************************************)
(* Steps of the handlers, told by the event recorded in last.              *)
(***************************************************************************)
GestureOps == {"drag", "pinch", "wheel"}

\* The step handles a drag, pinch or wheel event on panel s: every such event
\* is counted or changes a memo, which no render and no effect does.
GestureStep(s) ==
    /\ last'.op \in GestureOps
    /\ last'.side = s
    /\ <<steps', dragMemo', pinchMemo'>> # <<steps, dragMemo, pinchMemo>>

\* The scale of a view state lies in [0.1, 10].
ScaleInRange(vs) == RLe(MinScale, vs.scale) /\ RLe(vs.scale, MaxScale)

(***************************************************************************)
(* C1: in every reachable state both panels' scales lie in [0.1, 10].      *)
(* Violated: handleViewChange does not clamp the scale it mirrors onto the *)
(* sibling panel.                                                          *)
(***************************************************************************)
C1_ScaleClamped == \A s \in Side : ScaleInRange(viewState[s])

(***************************************************************************)
(* C2: with the lock on, a gesture that takes one panel from sourceOld to  *)
(* sourceNew takes the sibling to                                          *)
(*   scale * (sourceNew.scale / sourceOld.scale), offset + (sourceNew.     *)
(*   offset - sourceOld.offset), from the left panel and from the right.   *)
(* Violated, by the stale read of C17: handleViewChange takes sourceOld    *)
(* from the last render. After an event that has not been rendered yet,    *)
(* sourceOld is not the state the event takes the source panel from, and   *)
(* the sibling is given a ratio and deltas the source did not go through.  *)
(***************************************************************************)
C2_SyncedMirror ==
    [][\A s \in Side :
         (GestureStep(s) /\ isSynced) =>
            LET sourceOld == viewState[s]
                sourceNew == viewState'[s]
                target == viewState[Other(s)]
            IN  viewState'[Other(s)] =
                    [scale |-> RMul(target.scale,
                                    RDiv(sourceNew.scale, sourceOld.scale)),
                     offsetX |-> RAdd(target.offsetX,
                                      RSub(sourceNew.offsetX, sourceOld.offsetX)),
                     offsetY |-> RAdd(target.offsetY,
                                      RSub(sourceNew.offsetY, sourceOld.offsetY))]
      ]_vars

(***************************************************************************)
(* C3: while the lock is on, a gesture on either panel keeps the relation  *)
(* between the panels: left.scale / right.scale and the differences of the *)
(* offsets are the same after the update as before it.                     *)
(* Violated, by the stale read of C17: of two events handled before a      *)
(* render the second sets the source panel from the rendered state, which  *)
(* overwrites the first, while the sibling is given the ratio and the      *)
(* deltas of both. Besides, the sums and products are rounded, so that     *)
(* even between renders the quotient of the scales is kept only up to      *)
(* rounding.                                                               *)
(***************************************************************************)
ScaleRelation(v) == RDiv(v["left"].scale, v["right"].scale)
OffsetRelation(v) ==
    <<RSub(v["left"].offsetX, v["right"].offsetX),
      RSub(v["left"].offsetY, v["right"].offsetY)>>

C3_RelationKept ==
    [][\A s \in Side :
         (GestureStep(s) /\ isSynced) =>
            /\ ScaleRelation(viewState') = ScaleRelation(viewState)
            /\ OffsetRelation(viewState') = OffsetRelation(viewState)
      ]_vars

(***************************************************************************)
(* C4: while the lock is off, a drag, wheel or pinch event on one panel    *)
(* leaves the other panel's view state unchanged.                          *)
(***************************************************************************)
C4_UnlockedIndependent ==
    [][\A s \in Side :
         (GestureStep(s) /\ ~isSynced) =>
            viewState'[Other(s)] = viewState[Other(s)]
      ]_vars

\* An unlocked gesture has changed its own panel and the sibling is where a
\* fresh panel is.
C4_Witness ==
    /\ ~isSynced
    /\ last.op \in GestureOps
    /\ viewState[last.side].scale # R(1)
    /\ viewState[last.side].offsetX # R(0)
    /\ viewState[Other(last.side)] = InitialState
    /\ media[Other(last.side)] # Null

(***************************************************************************)
(* C5: toggling the lock, either way, flips the lock flag and changes      *)
(* neither panel's view state nor media: re-locking does not re-align.     *)
(***************************************************************************)
C5_ToggleOnlyLock ==
    [][last'.op = "toggleLock" =>
         /\ isSynced' = ~isSynced
         /\ viewState' = viewState
         /\ media' = media
      ]_vars

\* The lock has just been turned on again over panels that differ.
C5_Witness ==
    /\ last.op = "toggleLock"
    /\ isSynced
    /\ viewState["left"] # viewState["right"]

(***************************************************************************)
(* C6: a wheel zoom by factor f at pivot p sets the scale to               *)
(* clamp(scale * f, 0.1, 10) and each offset to                            *)
(* p - (p - offset) * (newScale / scale), so that the content point under  *)
(* the pivot stays under it: offset' + scale' * ((p - offset) / scale) = p.*)
(* Violated, by the stale read of C17: onWheel computes from the scale and *)
(* the offsets of the last render, not from the ones an earlier event has  *)
(* left, so the second of two notches before a render leaves the panel     *)
(* where the first has put it. Besides, the arithmetic is rounded: {1,0,0} *)
(* zoomed by 1.1 at (50,0) has offsetX 50 - 55.00000000000001, and the     *)
(* content point stays under the pivot up to rounding only.                *)
(***************************************************************************)
C6_WheelZoomAtPivot ==
    [][\A s \in Side, ev \in WheelEvents, p \in WheelPivots :
         (/\ onWheel(s, ev, p)
          /\ ~ev.ctrlKey
          /\ closure.media[s] # Null
          /\ Abs(ev.dy) >= 40) =>
            LET old == viewState[s]
                new == viewState'[s]
                factor == IF ev.dy > 0 THEN Rat(9, 10) ELSE Rat(11, 10)
                ratio == RDiv(new.scale, old.scale)
                px == R(p[1])
                py == R(p[2])
            IN  /\ new.scale = RMin(RMax(RMul(old.scale, factor), Rat(1, 10)), R(10))
                /\ new.offsetX = RSub(px, RMul(RSub(px, old.offsetX), ratio))
                /\ new.offsetY = RSub(py, RMul(RSub(py, old.offsetY), ratio))
                /\ RAdd(new.offsetX,
                        RMul(new.scale, RDiv(RSub(px, old.offsetX), old.scale))) = px
                /\ RAdd(new.offsetY,
                        RMul(new.scale, RDiv(RSub(py, old.offsetY), old.scale))) = py
      ]_vars

(***************************************************************************)
(* C7: reset sets both panels' view states to {1,0,0} whatever they were,  *)
(* and a reset right after a reset changes nothing.                        *)
(***************************************************************************)
C7_ResetIdempotent ==
    [][last'.op = "reset" =>
         /\ \A s \in Side :
              viewState'[s] = [scale |-> R(1), offsetX |-> R(0), offsetY |-> R(0)]
         /\ last.op = "reset" => UNCHANGED vars
      ]_vars

\* Reset has just been pressed in the middle of a drag that started from a
\* moved panel.
C7_Witness ==
    /\ last.op = "reset"
    /\ \E s \in Side : dragMemo[s] # Null /\ dragMemo[s].x # R(0)
    /\ \A s \in Side : viewState[s] = InitialState

(***************************************************************************)
(* C8: a drag, wheel or pinch event on a panel without loaded media        *)
(* changes nothing: neither view state, nor the lock, nor any media state. *)
(***************************************************************************)
C8_NoMediaNoop ==
    [][\A s \in Side :
         (GestureStep(s) /\ media[s] = Null) =>
            /\ UNCHANGED <<viewState, isSynced, dragMemo, pinchMemo>>
            /\ UNCHANGED mediaVars
      ]_vars

\* A gesture event has just been handled on the empty panel while the lock
\* is on and the sibling shows media.
C8_Witness ==
    /\ last.op \in GestureOps
    /\ media[last.side] = Null
    /\ media[Other(last.side)] # Null
    /\ isSynced

(***************************************************************************)
(* C9: while a panel's loading flag is true, a drag, wheel or pinch event  *)
(* on that panel changes no view state.                                    *)
(* Violated: the handlers test only whether the panel holds media, so a    *)
(* panel that holds earlier media while its replacement is decoded still   *)
(* reacts.                                                                 *)
(***************************************************************************)
C9_LoadingNoop ==
    [][\A s \in Side :
         (GestureStep(s) /\ loading[s]) => viewState' = viewState
      ]_vars

C11_WheelClassified ==
    [][\A s \in Side, ev \in WheelEvents, p \in WheelPivots :
         (/\ onWheel(s, ev, p)
          /\ ~ev.ctrlKey
          /\ closure.media[s] # Null) =>
            LET old == viewState[s]
                new == viewState'[s]
            IN  IF -40 < ev.dy /\ ev.dy < 40
                THEN /\ new.scale = old.scale
                     /\ new.offsetX = RSub(old.offsetX, R(ev.dx))
                     /\ new.offsetY = RSub(old.offsetY, R(ev.dy))
                ELSE /\ ev.dy > 0 =>
                          new.scale = RMax(RMul(old.scale, Rat(9, 10)), Rat(1, 10))
                     /\ ev.dy < 0 =>
                          new.scale = RMin(RMul(old.scale, Rat(11, 10)), R(10))
      ]_vars

(***************************************************************************)
(* C12: during one drag the first event captures the panel's offset and    *)
(* changes no view state; every later event with cumulative movement       *)
(* (mx,my) leaves the panel at the captured offset plus (mx,my) with its   *)
(* scale unchanged, whatever events came in between, and the captured      *)
(* offset stays the same until the drag ends.                              *)
(* Violated, by the stale read of C17: onDrag spreads the view state of    *)
(* the last render and captures its offsets, so a drag event handled after *)
(* a wheel notch that has not been rendered puts the scale back, and a     *)
(* drag that starts then captures the offsets from before the notch.       *)
(***************************************************************************)
C12_DragFromStart ==
    [][\A s \in Side, m \in DragMoves \cup {<<0, 0>>}, l \in BOOLEAN :
         (onDrag(s, m, l) /\ closure.media[s] # Null) =>
            IF dragMemo[s] = Null
            THEN /\ viewState'[s] = viewState[s]
                 /\ dragMemo'[s] = [x |-> viewState[s].offsetX,
                                    y |-> viewState[s].offsetY]
            ELSE /\ viewState'[s] =
                        [scale |-> viewState[s].scale,
                         offsetX |-> RAdd(dragMemo[s].x, R(m[1])),
                         offsetY |-> RAdd(dragMemo[s].y, R(m[2]))]
                 /\ dragMemo'[s] \in {dragMemo[s], Null}
      ]_vars

(***************************************************************************)
(* C13: the first event of a pinch captures the panel's scale and offsets  *)
(* and the pivot and changes no view state; every later event with         *)
(* cumulative multiplier m sets the panel to                               *)
(*   scale = clamp(initialScale * m, 0.1, 10),                             *)
(*   offset = pivot - (pivot - initialOffset) * (scale / initialScale),    *)
(* from the captured values alone, and the captured values stay the same   *)
(* until the pinch ends.                                                   *)
(* Violated, by the stale read of C17: the first event captures the scale  *)
(* and the offsets of the last render, so a pinch that starts after a      *)
(* wheel notch that has not been rendered zooms from the scale before the  *)
(* notch.                                                                  *)
(***************************************************************************)
C13_PinchFromStart ==
    [][\A s \in Side, ms \in PinchScales \cup {R(1)}, p \in PinchPivots, l \in BOOLEAN :
         (onPinch(s, ms, p, l) /\ closure.media[s] # Null) =>
            IF pinchMemo[s] = Null
            THEN /\ viewState' = viewState
                 /\ pinchMemo'[s] =
                        [initialScale |-> viewState[s].scale,
                         initialOffset |-> [x |-> viewState[s].offsetX,
                                            y |-> viewState[s].offsetY],
                         mouseX |-> R(p[1]), mouseY |-> R(p[2])]
            ELSE LET c == pinchMemo[s]
                     scale == RMin(RMax(RMul(c.initialScale, ms), Rat(1, 10)), R(10))
                     ratio == RDiv(scale, c.initialScale)
                 IN  /\ viewState'[s] =
                            [scale |-> scale,
                             offsetX |-> RSub(c.mouseX,
                                 RMul(RSub(c.mouseX, c.initialOffset.x), ratio)),
                             offsetY |-> RSub(c.mouseY,
                                 RMul(RSub(c.mouseY, c.initialOffset.y), ratio))]
                     /\ pinchMemo'[s] \in {c, Null}
      ]_vars

(***************************************************************************)
(* C14: with the lock on, a press of zoom-in or zoom-out multiplies both   *)
(* panels' scales by the same ratio: left.scale / right.scale is the same  *)
(* after the press as before it.                                           *)
(* Violated: each panel's scale is clamped on its own, so a panel at a     *)
(* limit stays while its sibling moves.                                    *)
(***************************************************************************)
C14_ButtonsKeepRatio ==
    [][(last'.op \in {"zoomIn", "zoomOut"} /\ isSynced) =>
          ScaleRelation(viewState') = ScaleRelation(viewState)
      ]_vars

(***************************************************************************)
(* C15: every media descriptor stored in a panel has 0 < baseScale <= 1,   *)
(* for every positive media size and every positive container size.        *)
(* Violated: calculateBaseScale takes the margin off the container before  *)
(* it divides, so a container narrower than 64 or no higher than 32 gives  *)
(* a base scale that is zero or negative.                                  *)
(***************************************************************************)
C15_BaseScaleInRange ==
    \A s \in Side :
        media[s] # Null =>
            RLt(R(0), media[s].baseScale) /\ RLe(media[s].baseScale, R(1))

(***************************************************************************)
(* C16: clear-all leaves both panels without media and not loading, both   *)
(* view states at {1,0,0}, the lock on, the video controls at their        *)
(* initial values and the set of tracked object URLs empty, every URL that *)
(* was in it revoked.                                                      *)
(***************************************************************************)
C16_ClearAllInitial ==
    [][last'.op = "clearAll" =>
         /\ \A s \in Side :
              /\ media'[s] = Null
              /\ ~loading'[s]
              /\ viewState'[s] = [scale |-> R(1), offsetX |-> R(0), offsetY |-> R(0)]
         /\ isSynced'
         /\ videoControls' = [isPlaying |-> FALSE, currentTime |-> R(0),
                              duration |-> R(0), isMuted |-> TRUE]
         /\ objectUrls' = {}
         /\ \A u \in objectUrls : revokeCount'[u] = revokeCount[u] + 1
      ]_vars

\* Clear-all has just revoked the tracked URLs of two loaded files.
C16_Witness ==
    /\ last.op = "clearAll"
    /\ Cardinality({u \in DOMAIN revokeCount : revokeCount[u] > 0}) >= 2
    /\ objectUrls = {}

(***************************************************************************)
(* C17: every wheel event, also one handled before React has rendered the  *)
(* update of an earlier event, takes the panel from the transform current  *)
(* at the event to the result of applying the event to it, and with the    *)
(* lock on every gesture event gives the sibling the ratio and the deltas  *)
(* that the source panel went through.                                     *)
(* Violated: the handlers compute from the view state of the last render,  *)
(* so the second of two events before a render overwrites the first on the *)
(* source panel while the sibling receives both.                           *)
(***************************************************************************)
C17_EventsInOrder ==
    [][/\ \A s \in Side, ev \in WheelEvents, p \in WheelPivots :
            (onWheel(s, ev, p) /\ ~ev.ctrlKey /\ closure.media[s] # Null) =>
                viewState'[s] = WheelState(viewState[s], ev, R(p[1]), R(p[2]))
       /\ \A s \in Side :
            (GestureStep(s) /\ isSynced /\ closure.media[s] # Null) =>
                viewState'[Other(s)] =
                    SyncedState(viewState[Other(s)], viewState[s], viewState'[s])
      ]_vars

(***************************************************************************)
(* C18: with the lock on, no render commits a state in which one panel     *)
(* reflects a gesture, a reset or a zoom-button press and the other does   *)
(* not: when the panels are rendered with the same view and the lock is on *)
(* before and after, every render changes the rendered views of both       *)
(* panels or of neither.                                                   *)
(* Violated, by the stale read of C17: handleViewChange sets the source    *)
(* panel from the view state of the last render and the sibling through a  *)
(* functional update. After a wheel notch on the left panel both panels    *)
(* are queued to scale 1.1; the press of a drag on the left panel before   *)
(* that is rendered sets the left panel back to the rendered {1,0,0}, and  *)
(* the render of the press shows the right panel zoomed and the left panel *)
(* not.                                                                    *)
(***************************************************************************)
C18_CommittedTogether ==
    [][(/\ closure.isSynced
        /\ closure'.isSynced
        /\ closure.viewState["left"] = closure.viewState["right"]) =>
           (closure'.viewState["left"] # closure.viewState["left"]
                <=> closure'.viewState["right"] # closure.viewState["right"])
      ]_vars

(***************************************************************************)
(* C19: with the lock on, a wheel zoom about pivot p on one panel leaves   *)
(* the sibling's content point that was under p under p: for the sibling   *)
(* offset' + scale' * ((p - offset) / scale) = p on both axes.             *)
(* Violated: the sibling is shifted by the source's offset delta, which    *)
(* compensates the zoom for the source's offset, not for the sibling's.    *)
(***************************************************************************)
C19_SiblingPivotKept ==
    [][\A s \in Side, ev \in WheelEvents, p \in WheelPivots :
         (/\ onWheel(s, ev, p)
          /\ ~ev.ctrlKey
          /\ closure.media[s] # Null
          /\ Abs(ev.dy) >= 40
          /\ isSynced) =>
            LET old == viewState[Other(s)]
                new == viewState'[Other(s)]
                px == R(p[1])
                py == R(p[2])
            IN  /\ RAdd(new.offsetX,
                        RMul(new.scale, RDiv(RSub(px, old.offsetX), old.scale))) = px
                /\ RAdd(new.offsetY,
                        RMul(new.scale, RDiv(RSub(py, old.offsetY), old.scale))) = py
      ]_vars

(***************************************************************************)
(* C20: the scale is clamped before the offsets are compensated. A wheel   *)
(* notch up on a panel at scale 10 and a wheel notch down on a panel at    *)
(* scale 0.1 leave the panel's scale and offsets as they are, and so does  *)
(* a pinch update whose target is beyond the limit that the pinch's        *)
(* previous update has reached.                                            *)
(* Violated, by the stale read of C17: the notch sets the panel to the     *)
(* state of the last render, so at a limit it takes back a scroll or a     *)
(* pinch update that has not been rendered yet. Besides, the compensated   *)
(* offset p - (p - offset) * 1 is rounded twice, so that between renders   *)
(* too a notch at a limit can move an offset by one unit in the last       *)
(* place.                                                                  *)
(***************************************************************************)
C20_NoMoveAtLimit ==
    [][/\ \A s \in Side, ev \in WheelEvents, p \in WheelPivots :
            (/\ onWheel(s, ev, p)
             /\ ~ev.ctrlKey
             /\ closure.media[s] # Null
             /\ \/ ev.dy <= -40 /\ viewState[s].scale = R(10)
                \/ ev.dy >= 40 /\ viewState[s].scale = Rat(1, 10)) =>
                viewState'[s] = viewState[s]
       /\ \A s \in Side, ms \in PinchScales, p \in PinchPivots, l \in BOOLEAN :
            (/\ onPinch(s, ms, p, l)
             /\ closure.media[s] # Null
             /\ pinchMemo[s] # Null
             /\ last.op = "pinch" /\ last.side = s /\ ~last.ev.first
             /\ LET target == RMul(pinchMemo[s].initialScale, ms)
                IN  \/ viewState[s].scale = R(10) /\ RLe(R(10), target)
                    \/ viewState[s].scale = Rat(1, 10) /\ RLe(target, Rat(1, 10))) =>
                viewState'[s] = viewState[s]
      ]_vars

(***************************************************************************)
(* C21, as stated: zoom-in sets each panel's scale to min(scale * 1.25,    *)
(* 10) and zoom-out to max(scale / 1.25, 0.1), with the offsets left       *)
(* alone; when neither press hits a limit, a zoom-out after the zoom-in,   *)
(* and a zoom-in after the zoom-out, gives the scale before the first      *)
(* press.                                                                  *)
(* Violated: the quotient and the product are rounded, and                 *)
(* 0.9 / 1.25 * 1.25 is 0.8999999999999999.                                *)
(***************************************************************************)
C21_ZoomRoundTripExact ==
    [][/\ last'.op = "zoomIn" =>
            \A s \in Side :
                LET old == viewState[s]
                    new == viewState'[s]
                IN  /\ new = [scale |-> RMin(RMul(old.scale, Rat(5, 4)), R(10)),
                              offsetX |-> old.offsetX, offsetY |-> old.offsetY]
                    /\ (/\ RLe(RMul(old.scale, Rat(5, 4)), R(10))
                        /\ RLe(Rat(1, 10), old.scale)) =>
                            ZoomOutState(new) = old
       /\ last'.op = "zoomOut" =>
            \A s \in Side :
                LET old == viewState[s]
                    new == viewState'[s]
                IN  /\ new = [scale |-> RMax(RDiv(old.scale, Rat(5, 4)), Rat(1, 10)),
                              offsetX |-> old.offsetX, offsetY |-> old.offsetY]
                    /\ (/\ RLe(Rat(1, 10), RDiv(old.scale, Rat(5, 4)))
                        /\ RLe(old.scale, R(10))) =>
                            ZoomInState(new) = old
      ]_vars

(***************************************************************************)
(* C21, amended: zoom-in sets each panel's scale to min(scale * 1.25, 10)  *)
(* and zoom-out to max(scale / 1.25, 0.1), with the offsets left alone;    *)
(* when neither press hits a limit, a zoom-out after the zoom-in, and a    *)
(* zoom-in after the zoom-out, leaves the offsets as they were and gives   *)
(* the scale before the first press up to rounding: a scale that differs   *)
(* from it by at most 2^-52 times that scale.                              *)
(***************************************************************************)
C21_ZoomRoundTrip ==
    [][LET \* |a - b| <= b * 2^-52, for a and b at most a factor 2 apart
           Restored(a, b) ==
               /\ a.offsetX = b.offsetX
               /\ a.offsetY = b.offsetY
               /\ RLe(RSub(a.scale, b.scale),
                      RMul(b.scale, [s |-> 1, e |-> -104, h |-> 33554432, l |-> 0]))
               /\ RLe(RSub(b.scale, a.scale),
                      RMul(b.scale, [s |-> 1, e |-> -104, h |-> 33554432, l |-> 0]))
       IN
       /\ last'.op = "zoomIn" =>
            \A s \in Side :
                LET old == viewState[s]
                    new == viewState'[s]
                IN  /\ new = [scale |-> RMin(RMul(old.scale, Rat(5, 4)), R(10)),
                              offsetX |-> old.offsetX, offsetY |-> old.offsetY]
                    /\ (/\ RLe(RMul(old.scale, Rat(5, 4)), R(10))
                        /\ RLe(Rat(1, 10), old.scale)) =>
                            Restored(ZoomOutState(new), old)
       /\ last'.op = "zoomOut" =>
            \A s \in Side :
                LET old == viewState[s]
                    new == viewState'[s]
                IN  /\ new = [scale |-> RMax(RDiv(old.scale, Rat(5, 4)), Rat(1, 10)),
                              offsetX |-> old.offsetX, offsetY |-> old.offsetY]
                    /\ (/\ RLe(Rat(1, 10), RDiv(old.scale, Rat(5, 4)))
                        /\ RLe(old.scale, R(10))) =>
                            Restored(ZoomInState(new), old)
      ]_vars

\* Zoom-out has just taken a panel that a wheel notch had left at scale 0.9
\* to 0.72, from where zoom-in gives 0.8999999999999999 and not 0.9.
C21_Witness ==
    /\ last.op = "zoomOut"
    /\ \E s \in Side :
          /\ viewState[s].scale = RDiv(Rat(9, 10), Rat(5, 4))
          /\ ZoomInState(viewState[s]).scale # Rat(9, 10)
          /\ RLt(ZoomInState(viewState[s]).scale, Rat(9, 10))

(***************************************************************************)
(* C22: the base scale stored by a load is                                 *)
(*   min(cw / naturalWidth, ch / naturalHeight, 1)                         *)
(* with cw = clientWidth / 2 - 32 and ch = clientHeight - 32 of the        *)
(* container, and the base scale computed without a container is 1.        *)
(***************************************************************************)
C22_BaseScaleFormula ==
    [][\A l \in pending, c \in ObservedContainerSizes :
         /\ calculateBaseScale(l.file.width, l.file.height, << >>) = R(1)
         /\ (onLoad(l, c) /\ Mounted) =>
            media'[l.side].baseScale =
                IF c = << >> THEN R(1)
                ELSE LET cw == RSub(RDiv(R(c[1]), R(2)), R(32))
                         ch == RSub(R(c[2]), R(32))
                         sx == RDiv(cw, R(l.file.width))
                         sy == RDiv(ch, R(l.file.height))
                     IN  IF RLe(sx, sy) /\ RLe(sx, R(1)) THEN sx
                         ELSE IF RLe(sy, R(1)) THEN sy
                         ELSE R(1)
      ]_vars

\* The example of the claim: 2000x1000 media loaded in an 800x600 container
\* has base scale 0.184.
C22_Witness ==
    /\ last.op = "load"
    /\ media[last.side] # Null
    /\ media[last.side].width = 2000
    /\ media[last.side].height = 1000
    /\ media[last.side].baseScale = Rat(184, 1000)

(***************************************************************************)
(* C23: a panel's media descriptor is fixed at load. It changes only when  *)
(* a load for that panel completes, when the panel's media is deleted and  *)
(* on clear-all; no gesture, zoom button, reset, lock toggle or resize of  *)
(* the container changes it.                                               *)
(***************************************************************************)
C23_DescriptorSnapshot ==
    [][/\ \A s \in Side :
            media'[s] # media[s] =>
                \/ last'.op = "load" /\ last'.side = s /\ media'[s] # Null
                \/ last'.op = "delete" /\ last'.side = s /\ media'[s] = Null
                \/ last'.op = "clearAll" /\ media'[s] = Null
       /\ last'.op \in GestureOps \cup {"zoomIn", "zoomOut", "reset", "toggleLock",
                                        "resize"} =>
            media' = media
      ]_vars

\* The container has just been resized to 60x600 and the left panel's
\* 2000x1000 media keeps the base scale 0.184 of its load in 800x600.
C23_Witness ==
    /\ last.op = "resize"
    /\ containerRef = <<60, 600>>
    /\ media["left"] # Null
    /\ media["left"].baseScale = Rat(184, 1000)

(***************************************************************************)
(* C24: no object URL is revoked more than once, and once the component is *)
(* unmounted every URL created before, except those of decodes that were   *)
(* still in flight at the unmount, has been revoked exactly once.          *)
(***************************************************************************)
C24_RevokedOnce ==
    /\ \A u \in DOMAIN revokeCount : revokeCount[u] <= 1
    /\ ~Mounted =>
          \A u \in DOMAIN revokeCount :
              (u \notin objectUrls /\ u \notin {l.src : l \in pending}) =>
                  revokeCount[u] = 1

\* The component has just been unmounted after a replaced upload: the URL of
\* the first media and the URL of its replacement have each been revoked once.
C24_Witness ==
    /\ last.op = "unmount"
    /\ pending = {}
    /\ \E s \in Side : media[s] # Null /\ media[s].src = 2
    /\ \A s \in Side : media[s] = Null \/ media[s].src = 2
    /\ revokeCount = (1 :> 1) @@ (2 :> 1)

(***************************************************************************)
(* C25: a drag session ends on pointer release and, in the mouse-handler   *)
(* version, on pointer leave as well. The last event of a drag discards    *)
(* its memo, and the first event of the next drag changes no view state    *)
(* and captures the offsets the panel has then. In the mouse-handler       *)
(* version a release or a leave clears the dragging flag, a move on a      *)
(* panel whose last event was a release or a leave changes no view state,  *)
(* and the first move after a press shifts the view by the distance from   *)
(* the position of that press.                                             *)
(* Violated, by the stale read of C17: in the mouse-handler version a move  *)
(* adds its distance to the view state of the last render. When the moves  *)
(* of the drag before have not been rendered yet, the first move of a new  *)
(* drag starts from the view that drag started from. The release that ends *)
(* a drag of the gesture library is rendered at once, but a wheel event    *)
(* after it is not, and the first event of the next drag captures the      *)
(* offsets of the last render and sets the panel to them.                  *)
(***************************************************************************)
C25_DragSessionEnds ==
    [][/\ \A s \in Side, m \in DragMoves \cup {<<0, 0>>}, l \in BOOLEAN :
            (onDrag(s, m, l) /\ closure.media[s] # Null) =>
                /\ l => dragMemo'[s] = Null
                /\ dragMemo[s] = Null =>
                      /\ viewState' = viewState
                      /\ dragMemo'[s] = [x |-> viewState[s].offsetX,
                                         y |-> viewState[s].offsetY]
       /\ last'.op \in {"mouseUp", "mouseLeave"} => ~isDragging'[last'.side]
       /\ (/\ last'.op = "mouseMove"
           /\ last.op \in {"mouseUp", "mouseLeave"}
           /\ last.side = last'.side) => sharedViewState' = sharedViewState
       /\ (/\ last'.op = "mouseMove"
           /\ last.op = "mouseDown"
           /\ last.ev.button = 0
           /\ last.side = last'.side) =>
              sharedViewState' =
                  [sharedViewState EXCEPT
                      !.offsetX = RAdd(@, R(last'.ev.pos[1] - last.ev.pos[1])),
                      !.offsetY = RAdd(@, R(last'.ev.pos[2] - last.ev.pos[2]))]
      ]_vars

(***************************************************************************)
(* C26: reset always turns the lock on: after a reset the lock flag is     *)
(* true whether it was on or off before, and both panels are at {1,0,0},   *)
(* so a reset from an unlocked state with different views re-aligns the    *)
(* panels and re-locks them.                                               *)
(***************************************************************************)
C26_ResetLocks ==
    [][last'.op = "reset" =>
         /\ isSynced'
         /\ viewState'["left"] = viewState'["right"]
         /\ viewState'["left"] = InitialState
         /\ (~isSynced /\ viewState["left"] # viewState["right"]) =>
               (isSynced' # isSynced /\ viewState' # viewState)
      ]_vars

\* Reset has just been pressed on panels that a zoom button had rescaled:
\* the lock is on and both panels are aligned at {1,0,0}.
C26_Witness ==
    /\ last.op = "reset"
    /\ steps = 1
    /\ isSynced
    /\ closure.isSynced
    /\ viewState = [s \in Side |-> InitialState]

(***************************************************************************)
(* C27: a press of the zoom-in or the zoom-out button rescales both panels *)
(* whether the lock is on or off, each panel from its own scale and        *)
(* clamped on its own, and leaves the lock flag as it was.                 *)
(***************************************************************************)
C27_ZoomButtonsIgnoreLock ==
    [][/\ last'.op \in {"zoomIn", "zoomOut"} => isSynced' = isSynced
       /\ last'.op = "zoomIn" =>
            \A s \in Side :
                /\ viewState'[s].scale =
                       RMin(RMul(viewState[s].scale, Rat(5, 4)), R(10))
                /\ RLt(viewState[s].scale, R(10)) =>
                       viewState'[s].scale # viewState[s].scale
       /\ last'.op = "zoomOut" =>
            \A s \in Side :
                /\ viewState'[s].scale =
                       RMax(RDiv(viewState[s].scale, Rat(5, 4)), Rat(1, 10))
                /\ RLt(Rat(1, 10), viewState[s].scale) =>
                       viewState'[s].scale # viewState[s].scale
      ]_vars

\* With the lock off, zoom-in has been pressed once on panels at scales 1
\* and 10: the left panel is at 1.25 and the right panel stays clamped at 10.
C27_Witness ==
    /\ last.op = "zoomIn"
    /\ steps = 1
    /\ ~isSynced
    /\ viewState["left"].scale = Rat(5, 4)
    /\ viewState["right"].scale = R(10)

(***************************************************************************)
(* C28: while the component is mounted, the object URL of the media a      *)
(* panel holds has been created and never revoked.                         *)
(***************************************************************************)
C28_HeldUrlLive ==
    Mounted =>
        \A s \in Side :
            media[s] # Null =>
                /\ media[s].src \in DOMAIN revokeCount
                /\ revokeCount[media[s].src] = 0

(***************************************************************************)
(* C29: while the component is mounted, a panel's loading flag is true     *)
(* exactly when at least one decode for that side is in flight.            *)
(***************************************************************************)
C29_LoadingWhileInFlight ==
    Mounted =>
        \A s \in Side : loading[s] <=> (\E l \in pending : l.side = s)

(***************************************************************************)
(* C30: while the component is mounted and no decode is in flight, the     *)
(* tracked object URLs are exactly the URLs of the media the two panels    *)
(* hold.                                                                   *)
(***************************************************************************)
C30_TrackedEqualsHeld ==
    (Mounted /\ pending = {}) =>
        objectUrls = {media[s].src : s \in {x \in Side : media[x] # Null}}

====
